---- MODULE Spec2Model ----
(***************************************************************************)
(* Encap post-cure oven temperature dashboard (src/app.py).                *)
(*                                                                         *)
(* app.py is a Streamlit script: every user interaction re-executes it     *)
(* from the top.  One execution loads the four workbooks (Step 1), builds  *)
(* measurement_map (Step 2), reads the two widgets (Step 3), filters the   *)
(* resolved dataset by the chosen dates (Step 4) and renders the chart,    *)
(* the raw-data table and the two downloads (Step 5).  An action below is  *)
(* one interaction followed by the whole re-execution.                     *)
(*                                                                         *)
(* A timestamp is an integer day * TicksPerDay + time-of-day; .dt.date is  *)
(* the integer division by TicksPerDay.                                    *)
(***************************************************************************)
EXTENDS Integers, Sequences, FiniteSets, TLC

\* ------------------------------------------------------------------ bounds
MaxDay == 3
MaxTod == 1
MaxRows == 2
MaxSel == 2

TicksPerDay == MaxTod + 1
Days == 1..MaxDay
\* A DATE cell is stamped at midnight or at the last tick of its day.
Stamps == {d * TicksPerDay + t : d \in Days, t \in {0, MaxTod}}

\* --------------------------------------------------------------- helpers
Range(s) == {s[i] : i \in DOMAIN s}

Min(S) == CHOOSE x \in S : \A y \in S : x <= y
Max(S) == CHOOSE x \in S : \A y \in S : x >= y

\* --------------------------------------------------- Step 1: the datasets
DatasetNames == <<"dataset1", "dataset2", "dataset3", "dataset4">>
DatasetSet == Range(DatasetNames)

FileOf(name) ==
    CASE name = "dataset1" -> "BMV#80 & BMV#88 & BMV#86 & BMV#69.xlsx"
      [] name = "dataset2" -> "MEM#01 & MEM#02 & BMV#91.xlsx"
      [] name = "dataset3" -> "MEM#03.xlsx"
      [] name = "dataset4" -> "MEM#19 & MEM#20.xlsx"
FileNames == {FileOf(n) : n \in DatasetSet}

\* Column layouts of a DATA sheet: DATETIME and DATE always, CW, LCL, UCL
\* optionally, and the oven columns.
LayoutA == <<"DATETIME", "CW", "DATE", "OvenA", "OvenB", "LCL", "UCL">>
LayoutB == <<"DATETIME", "DATE", "OvenB", "OvenC">>
LayoutC == <<"DATETIME", "DATE", "OvenC", "LCL">>
Layouts == {LayoutA, LayoutB, LayoutC}

TimeCols == {"DATETIME", "DATE"}

\* How read_excel types a column: LayoutA's sheets keep their dates as text
\* (dtype object), the others as date cells (datetime64).
StoredDtypes(layout) ==
    [c \in Range(layout) |->
        IF c \in TimeCols
        THEN (IF layout = LayoutA THEN "object" ELSE "datetime64")
        ELSE "number"]

\* A row logged at stamp: its two time cells, and in every other column a
\* number that differs from column to column.
MkRow(layout, stamp) ==
    [c \in Range(layout) |->
        IF c \in TimeCols THEN stamp
        ELSE stamp + (CHOOSE j \in DOMAIN layout : layout[j] = c)]

RowLists(layout) ==
    UNION {[1..n -> {MkRow(layout, s) : s \in Stamps}] : n \in 1..MaxRows}

MkTable(layout, rows) ==
    [columns |-> layout, dtypes |-> StoredDtypes(layout), rows |-> rows]

EmptyTable == [columns |-> <<>>, dtypes |-> <<>>, rows |-> <<>>]

\* The layout and the single row a sheet has when it is not the sheet under
\* study.
BaseLayout(name) ==
    CASE name = "dataset1" -> LayoutA
      [] name = "dataset2" -> LayoutB
      [] name = "dataset3" -> LayoutC
      [] name = "dataset4" -> LayoutC
IndexOf(name) == CHOOSE i \in DOMAIN DatasetNames : DatasetNames[i] = name
BaseRows(layout, name) ==
    <<MkRow(layout, (((IndexOf(name) - 1) % MaxDay) + 1) * TicksPerDay)>>

\* pd.read_excel(<file>, sheet_name="DATA") for the four names, in this order.
LoadDatasets(disk) == [n \in DatasetSet |-> disk[FileOf(n)]]

\* ------------------------------------------- Step 2: the measurement index
\* Mutant: the list lacks CW.
exclude_cols_NoCW == {"DATETIME", "DATE", "LCL", "UCL"}

exclude_cols == {"DATETIME", "CW", "DATE", "LCL", "UCL"}

\* Mutant: the loop stops one column early.
RECURSIVE IndexColumns_SkipLast(_, _, _, _)
IndexColumns_SkipLast(map, name, cols, j) ==
    IF j >= Len(cols) THEN map
    ELSE IndexColumns_SkipLast(
            IF cols[j] \notin {"DATETIME", "CW", "DATE", "LCL", "UCL"}
            THEN (cols[j] :> name) @@ map
            ELSE map,
            name, cols, j + 1)

\* Mutant: a name already in the index keeps its dataset (setdefault).
RECURSIVE IndexColumns_FirstWins(_, _, _, _)
IndexColumns_FirstWins(map, name, cols, j) ==
    IF j > Len(cols) THEN map
    ELSE IndexColumns_FirstWins(
            IF cols[j] \notin {"DATETIME", "CW", "DATE", "LCL", "UCL"}
            THEN map @@ (cols[j] :> name)
            ELSE map,
            name, cols, j + 1)

\* The inner loop: for col in df.columns.
RECURSIVE IndexColumns(_, _, _, _)
IndexColumns(map, name, cols, j) ==
    IF j > Len(cols) THEN map
    ELSE IndexColumns(
            IF cols[j] \notin exclude_cols
            THEN (cols[j] :> name) @@ map
            ELSE map,
            name, cols, j + 1)

\* The outer loop: for name, df in datasets.items().
RECURSIVE IndexDatasets(_, _, _)
IndexDatasets(map, ds, i) ==
    IF i > Len(DatasetNames) THEN map
    ELSE IndexDatasets(
            IndexColumns(map, DatasetNames[i], ds[DatasetNames[i]].columns, 1),
            ds, i + 1)

BuildIndex(ds) == IndexDatasets(<<>>, ds, 1)

\* ------------------------------------------------ Step 3: the two widgets
\* df = datasets[dataset_name].copy(); df[c] = pd.to_datetime(df[c]) for the
\* two time columns.  The store keeps its own table: the coercion writes to
\* the copy.
ToDatetime(t, c) == [t EXCEPT !.dtypes[c] = "datetime64"]

\* Mutant: no .copy(), the coercion writes to the store's own table.
CopyAndCoerce_Alias(ds, name) ==
    [store |-> [ds EXCEPT ![name] =
                   ToDatetime(ToDatetime(ds[name], "DATETIME"), "DATE")],
     df    |-> ToDatetime(ToDatetime(ds[name], "DATETIME"), "DATE")]

CopyAndCoerce(ds, name) ==
    [store |-> ds,
     df    |-> ToDatetime(ToDatetime(ds[name], "DATETIME"), "DATE")]

\* .dt.date, and date_input's own conversion of a Timestamp to a date.
DateOf(stamp) == stamp \div TicksPerDay

DateColumn(t) == {t.rows[i]["DATE"] : i \in DOMAIN t.rows}
MinDate(t) == DateOf(Min(DateColumn(t)))
MaxDate(t) == DateOf(Max(DateColumn(t)))

\* st.date_input("...", [min_date, max_date], min_value=..., max_value=...):
\* the widget keeps what the user picked for as long as it is rendered with
\* the same default and limits, and otherwise starts from its default.  wv is
\* the value the browser holds (one date while a range is half picked, two
\* when it is complete), wb the limits it was last rendered with.
DateInput(wv, wb, bounds) ==
    IF wb = bounds /\ wv # <<>> THEN wv ELSE bounds

\* ----------------------------------------------- Step 4: the range filter
RECURSIVE TakeMasked(_, _, _)
TakeMasked(rows, mask, i) ==
    IF i > Len(rows) THEN <<>>
    ELSE (IF mask[i] THEN <<rows[i]>> ELSE <<>>) \o TakeMasked(rows, mask, i + 1)

\* Mutant: the upper comparison is on the timestamp, not on its date.
RangeFilter_Timestamp(t, start_date, end_date) ==
    LET ge   == [i \in DOMAIN t.rows |->
                    (t.rows[i]["DATE"] \div TicksPerDay) >= start_date]
        le   == [i \in DOMAIN t.rows |->
                    t.rows[i]["DATE"] <= end_date * TicksPerDay]
        mask == [i \in DOMAIN t.rows |-> ge[i] /\ le[i]]
    IN [t EXCEPT !.rows = TakeMasked(t.rows, mask, 1)]

\* Mutant: the view is sorted by DATE after the filter (sort_values).
RangeFilter_Sorted(t, start_date, end_date) ==
    LET mask == [i \in DOMAIN t.rows |->
                    /\ (t.rows[i]["DATE"] \div TicksPerDay) >= start_date
                    /\ (t.rows[i]["DATE"] \div TicksPerDay) <= end_date]
        kept == TakeMasked(t.rows, mask, 1)
        perm == CHOOSE p \in [DOMAIN kept -> DOMAIN kept] :
                    /\ \A a, b \in DOMAIN kept : a # b => p[a] # p[b]
                    /\ \A a, b \in DOMAIN kept :
                          a < b => kept[p[a]]["DATE"] <= kept[p[b]]["DATE"]
    IN [t EXCEPT !.rows = [a \in DOMAIN kept |-> kept[perm[a]]]]

\* df[(df["DATE"].dt.date >= start_date) & (df["DATE"].dt.date <= end_date)]
RangeFilter(t, start_date, end_date) ==
    LET ge   == [i \in DOMAIN t.rows |-> DateOf(t.rows[i]["DATE"]) >= start_date]
        le   == [i \in DOMAIN t.rows |-> DateOf(t.rows[i]["DATE"]) <= end_date]
        mask == [i \in DOMAIN t.rows |-> ge[i] /\ le[i]]
    IN [t EXCEPT !.rows = TakeMasked(t.rows, mask, 1)]

\* ------------------------------------------------ Step 5: chart and exports
NoChart == [x |-> <<>>, y |-> <<>>, traces |-> {}]
NoExcel == [sheet |-> "", header |-> <<>>, cells |-> <<>>]

\* px.line(df, x="DATETIME", y=selected_measures) and the two add_scatter
\* calls.  px.line raises ValueError when a name in y is no column of df.
LineChart(view, sel) ==
    [x      |-> [i \in DOMAIN view.rows |-> view.rows[i]["DATETIME"]],
     y      |-> sel,
     traces |-> {c \in {"LCL", "UCL"} : c \in Range(view.columns)}]

\* dataframe.to_excel(writer, index=False, sheet_name="FilteredData")
to_excel(view) ==
    [sheet  |-> "FilteredData",
     header |-> view.columns,
     cells  |-> [i \in DOMAIN view.rows |->
                   [j \in DOMAIN view.columns |-> view.rows[i][view.columns[j]]]]]

\* One line of delimited text: the fields, a "," between two of them, and the
\* line terminator.
RECURSIVE JoinFields(_, _)
JoinFields(fields, j) ==
    IF j > Len(fields) THEN <<"\n">>
    ELSE (IF j > 1 THEN <<",">> ELSE <<>>) \o <<fields[j]>> \o JoinFields(fields, j + 1)

RECURSIVE CsvLines(_, _)
CsvLines(view, i) ==
    IF i > Len(view.rows) THEN <<>>
    ELSE JoinFields([j \in DOMAIN view.columns |->
                        ToString(view.rows[i][view.columns[j]])], 1)
         \o CsvLines(view, i + 1)

\* Mutant: to_csv() with its default index=True, a leading index field.
RECURSIVE CsvLines_WithIndex(_, _)
CsvLines_WithIndex(view, i) ==
    IF i > Len(view.rows) THEN <<>>
    ELSE JoinFields(<<ToString(i - 1)>> \o
                    [j \in DOMAIN view.columns |->
                        ToString(view.rows[i][view.columns[j]])], 1)
         \o CsvLines_WithIndex(view, i + 1)

to_csv_WithIndex(view) ==
    JoinFields(<<"">> \o view.columns, 1) \o CsvLines_WithIndex(view, 1)

\* df.to_csv(index=False): the header line, then one line per row.
to_csv(view) == JoinFields(view.columns, 1) \o CsvLines(view, 1)

\* Mutant: the run stops after the warning (st.stop() in the else branch).
Render_StopOnEmpty(view, sel) ==
    IF view.rows # <<>>
    THEN IF \E m \in Range(sel) : m \notin Range(view.columns)
         THEN [phase |-> "Crashed", error |-> "ValueError: px.line",
               shown |-> {}, chart |-> NoChart,
               excel |-> NoExcel, csv |-> <<>>]
         ELSE [phase |-> "NonEmptyResult", error |-> "none",
               shown |-> {"chart", "table", "excel", "csv"},
               chart |-> LineChart(view, sel),
               excel |-> to_excel(view), csv |-> to_csv(view)]
    ELSE [phase |-> "EmptyResult", error |-> "none",
          shown |-> {"warning"},
          chart |-> NoChart,
          excel |-> NoExcel, csv |-> <<>>]

\* Lines 201-253: the chart or the warning, then the table and the downloads.
Render(view, sel) ==
    IF view.rows # <<>>
    THEN IF \E m \in Range(sel) : m \notin Range(view.columns)
         THEN [phase |-> "Crashed", error |-> "ValueError: px.line",
               shown |-> {}, chart |-> NoChart,
               excel |-> NoExcel, csv |-> <<>>]
         ELSE [phase |-> "NonEmptyResult", error |-> "none",
               shown |-> {"chart", "table", "excel", "csv"},
               chart |-> LineChart(view, sel),
               excel |-> to_excel(view), csv |-> to_csv(view)]
    ELSE [phase |-> "EmptyResult", error |-> "none",
          shown |-> {"warning", "table", "excel", "csv"},
          chart |-> NoChart,
          excel |-> to_excel(view), csv |-> to_csv(view)]

\* Mutant: the last selected measurement picks the dataset.
Resolve_Last(map, sel) == map[sel[Len(sel)]]

\* dataset_name = measurement_map[selected_measures[0]]
Resolve(map, sel) == map[sel[1]]

\* One execution of the script, top to bottom.
Script(disk, sel, wv, wb) ==
    LET loaded == LoadDatasets(disk)
        map    == BuildIndex(loaded)
    IN  IF sel = <<>>
        THEN [datasets |-> loaded, measurement_map |-> map,
              dataset_name |-> "", date_bounds |-> <<>>, date_value |-> <<>>,
              df |-> EmptyTable,
              out |-> [phase |-> "NoSelection", error |-> "none",
                       shown |-> {}, chart |-> NoChart,
                       excel |-> NoExcel, csv |-> <<>>]]
        ELSE
        LET name   == Resolve(map, sel)
            q      == CopyAndCoerce(loaded, name)
            bounds == <<MinDate(q.df), MaxDate(q.df)>>
            value  == DateInput(wv, wb, bounds)
        IN  IF Len(value) # 2
            THEN [datasets |-> q.store, measurement_map |-> map,
                  dataset_name |-> name, date_bounds |-> bounds,
                  date_value |-> value, df |-> q.df,
                  out |-> [phase |-> "Crashed",
                           error |-> "ValueError: unpack",
                           shown |-> {}, chart |-> NoChart,
                           excel |-> NoExcel, csv |-> <<>>]]
            ELSE
            LET view == RangeFilter(q.df, value[1], value[2])
            IN  [datasets |-> q.store, measurement_map |-> map,
                 dataset_name |-> name, date_bounds |-> bounds,
                 date_value |-> value, df |-> view,
                 out |-> Render(view, sel)]

VARIABLES
    files,              \* the four workbooks on disk, by file name
    datasets,           \* Step 1's dict, by dataset name
    measurement_map,    \* Step 2's dict
    selected_measures,  \* the multiselect's value, in the order picked
    date_value,         \* the date_input's value (<<>> while not rendered)
    date_bounds,        \* the limits the date_input was rendered with
    dataset_name,       \* the dataset the run queried ("" when none)
    df,                 \* the run's data frame when it ended
    phase,              \* NoSelection, EmptyResult, NonEmptyResult, Crashed
    error,              \* the exception that ended the run, or "none"
    shown,              \* what the page shows below the controls
    chart, excel_data, csv_data

vars == <<files, datasets, measurement_map, selected_measures, date_value,
          date_bounds, dataset_name, df, phase, error, shown, chart,
          excel_data, csv_data>>

\* The page after the script ran with selection sel and the browser holding
\* wv in the date widget.
Rerun(sel, wv) ==
    \E r \in {Script(files, sel, wv, date_bounds)} :
        /\ selected_measures' = sel
        /\ datasets' = r.datasets
        /\ measurement_map' = r.measurement_map
        /\ dataset_name' = r.dataset_name
        /\ date_bounds' = r.date_bounds
        /\ date_value' = r.date_value
        /\ df' = r.df
        /\ phase' = r.out.phase
        /\ error' = r.out.error
        /\ shown' = r.out.shown
        /\ chart' = r.out.chart
        /\ excel_data' = r.out.excel
        /\ csv_data' = r.out.csv
        /\ UNCHANGED files

\* The workbooks a session may find on disk: either every workbook has any
\* of the layouts and its single base row, or every workbook has its base
\* layout and one of them holds any row list within the bounds.
Disks ==
    {[f \in FileNames |->
        LET n == CHOOSE m \in DatasetSet : FileOf(m) = f
        IN MkTable(lay[n], BaseRows(lay[n], n))]
     : lay \in [DatasetSet -> Layouts]}
    \cup
    UNION {
        {[f \in FileNames |->
            LET n == CHOOSE m \in DatasetSet : FileOf(m) = f
            IN MkTable(BaseLayout(n),
                       IF n = v THEN rows ELSE BaseRows(BaseLayout(n), n))]
         : rows \in RowLists(BaseLayout(v))}
        : v \in DatasetSet}

\* The session starts with the first run: nothing selected.
Init ==
    /\ files \in Disks
    /\ \E r \in {Script(files, <<>>, <<>>, <<>>)} :
           /\ selected_measures = <<>>
           /\ datasets = r.datasets
           /\ measurement_map = r.measurement_map
           /\ dataset_name = r.dataset_name
           /\ date_bounds = r.date_bounds
           /\ date_value = r.date_value
           /\ df = r.df
           /\ phase = r.out.phase
           /\ error = r.out.error
           /\ shown = r.out.shown
           /\ chart = r.out.chart
           /\ excel_data = r.out.excel
           /\ csv_data = r.out.csv

\* The user adds an option of the multiselect to the selection.
AddMeasure(m) ==
    /\ Len(selected_measures) < MaxSel
    /\ m \in DOMAIN measurement_map
    /\ m \notin Range(selected_measures)
    /\ Rerun(Append(selected_measures, m), date_value)

\* The user removes a selected option.
RemoveMeasure(m) ==
    /\ m \in Range(selected_measures)
    /\ Rerun(SelectSeq(selected_measures, LAMBDA x : x # m), date_value)

\* The user clicks the first date of a new range: the browser sends it alone.
PickStart(d) ==
    /\ date_bounds # <<>>
    /\ date_bounds[1] <= d /\ d <= date_bounds[2]
    /\ Rerun(selected_measures, <<d>>)

\* The user completes a range.  The picker keeps both dates within its
\* limits; the code does not order them.
PickRange(s, e) ==
    /\ date_bounds # <<>>
    /\ date_bounds[1] <= s /\ s <= date_bounds[2]
    /\ date_bounds[1] <= e /\ e <= date_bounds[2]
    /\ Rerun(selected_measures, <<s, e>>)

\* A click on a download button: the script runs again, nothing else changed.
ClickDownload ==
    /\ {"excel", "csv"} \subseteq shown
    /\ Rerun(selected_measures, date_value)

Next ==
    \/ \E m \in DOMAIN measurement_map : AddMeasure(m)
    \/ \E m \in Range(selected_measures) : RemoveMeasure(m)
    \/ \E d \in Days : PickStart(d)
    \/ \E s \in Days, e \in Days : PickRange(s, e)
    \/ ClickDownload

Spec == Init /\ [][Next]_vars

\* ==================================================================
\* Properties
\* ==================================================================
Reserved == {"DATETIME", "CW", "DATE", "LCL", "UCL"}

Columns(n) == Range(datasets[n].columns)

\* The run reached the filter: a selection and a complete date range.
Queried == selected_measures # <<>> /\ Len(date_value) = 2

\* The table the run queried, as the store holds it.
Source == datasets[dataset_name]

\* start <= calendar_date(r.DATE) <= end for the range the run used.
InRange(r) ==
    /\ date_value[1] <= r["DATE"] \div TicksPerDay
    /\ r["DATE"] \div TicksPerDay <= date_value[2]

\* The delimited text read back: the lines, each a sequence of fields.
RECURSIVE SplitOn(_, _, _, _)
SplitOn(tokens, sep, i, acc) ==
    IF i > Len(tokens) THEN (IF acc = <<>> THEN <<>> ELSE <<acc>>)
    ELSE IF tokens[i] = sep
         THEN <<acc>> \o SplitOn(tokens, sep, i + 1, <<>>)
         ELSE SplitOn(tokens, sep, i + 1, Append(acc, tokens[i]))

\* A field is the one token between two separators, or the empty string.
FieldsOf(line) ==
    LET groups == SplitOn(line, ",", 1, <<>>)
    IN [f \in DOMAIN groups |->
           IF groups[f] = <<>> THEN "" ELSE groups[f][1]]

DecodeCsv(tokens) ==
    LET lines == SplitOn(tokens, "\n", 1, <<>>)
    IN [k \in DOMAIN lines |-> FieldsOf(lines[k])]

\* C1 (range filter correctness): when a run filtered with the range
\* (start, end), a row of the resolved dataset is in the filtered view iff
\* start <= calendar_date(DATE) <= end, every row of the view is a row of the
\* dataset, and the view is empty when start > end.
C1_RangeFilterCorrect ==
    Queried =>
        /\ \A i \in DOMAIN Source.rows :
              (Source.rows[i] \in Range(df.rows)) <=> InRange(Source.rows[i])
        /\ \A r \in Range(df.rows) : r \in Range(Source.rows) /\ InRange(r)
        /\ (date_value[1] > date_value[2]) => df.rows = <<>>

\* A run kept a row stamped later than midnight on the end date and dropped
\* another row.
C1_Witness ==
    /\ Queried
    /\ \E r \in Range(df.rows) :
          /\ r["DATE"] % TicksPerDay # 0
          /\ r["DATE"] \div TicksPerDay = date_value[2]
    /\ Len(df.rows) < Len(Source.rows)

\* C2 (order preservation): the filtered view is exactly the subsequence of
\* the source dataset's rows that satisfy the date predicate, in source
\* order, with the source's columns.
C2_OrderPreserved ==
    Queried =>
        /\ df.rows = SelectSeq(Source.rows, InRange)
        /\ df.columns = Source.columns

\* A run kept two rows that the source holds in descending DATE order.
C2_Witness ==
    /\ Queried
    /\ Len(df.rows) >= 2
    /\ df.rows[1]["DATE"] > df.rows[2]["DATE"]

\* C3 (index completeness): every column of every loaded dataset that is
\* not one of DATETIME, CW, DATE, LCL, UCL is a key of the index.
C3_IndexComplete ==
    \A n \in DatasetSet :
        \A c \in Columns(n) \ Reserved : c \in DOMAIN measurement_map

\* The index holds three measurements and a dataset's last column is one.
C3_Witness ==
    /\ Cardinality(DOMAIN measurement_map) = 3
    /\ \E n \in DatasetSet :
          datasets[n].columns[Len(datasets[n].columns)] \notin Reserved
    /\ selected_measures # <<>>

\* The positions, in load order, of the datasets that have column c.
Holders(c) == {i \in DOMAIN DatasetNames : c \in Columns(DatasetNames[i])}

\* C4 (last write wins): a key of the index maps to the dataset loaded last
\* among those that have the column.
C4_LastWriteWins ==
    \A c \in DOMAIN measurement_map :
        /\ Holders(c) # {}
        /\ measurement_map[c] = DatasetNames[Max(Holders(c))]

\* A measurement is a column of two datasets and maps to the later one.
C4_Witness ==
    \E c \in DOMAIN measurement_map :
        /\ Cardinality(Holders(c)) >= 2
        /\ measurement_map[c] = DatasetNames[Max(Holders(c))]
        /\ selected_measures # <<>>

\* C5 (index soundness): every key is a non-reserved column of the loaded
\* dataset it maps to, and every selected option resolves to a loaded
\* dataset; the first selected one is a column of the dataset queried.
C5_IndexSound ==
    /\ \A k \in DOMAIN measurement_map :
          /\ k \notin Reserved
          /\ measurement_map[k] \in DatasetSet
          /\ k \in Columns(measurement_map[k])
    /\ \A m \in Range(selected_measures) : m \in DOMAIN measurement_map
    /\ selected_measures # <<>> =>
          /\ dataset_name \in DatasetSet
          /\ selected_measures[1] \in Columns(dataset_name)

\* A measurement was resolved to a dataset that also has CW, LCL and UCL.
C5_Witness ==
    /\ selected_measures # <<>>
    /\ dataset_name \in DatasetSet
    /\ {"CW", "LCL", "UCL"} \subseteq Columns(dataset_name)

\* C6 (empty range law): a run whose range matches no row of the resolved
\* dataset ends in EmptyResult without an error: the warning is shown, the
\* chart is not, the table has no rows, and both downloads are offered and
\* hold the dataset's column names and no data row.
C6_EmptyRangeLaw ==
    (Queried /\ \A i \in DOMAIN Source.rows : ~InRange(Source.rows[i])) =>
        /\ phase = "EmptyResult"
        /\ error = "none"
        /\ "warning" \in shown
        /\ "chart" \notin shown
        /\ "table" \in shown /\ df.rows = <<>>
        /\ {"excel", "csv"} \subseteq shown
        /\ excel_data.header = Source.columns
        /\ excel_data.cells = <<>>
        /\ DecodeCsv(csv_data) = <<Source.columns>>

\* An ordered range fell between the dates of a two-row dataset.
C6_Witness ==
    /\ Queried
    /\ date_value[1] <= date_value[2]
    /\ Len(Source.rows) = 2
    /\ \A i \in DOMAIN Source.rows : ~InRange(Source.rows[i])
    /\ phase = "EmptyResult"

\* With a non-empty selection the dataset queried, the picker's limits and
\* the table's columns and rows are those of the dataset the index gives for
\* the first selected measurement.
C7_Resolved ==
    selected_measures # <<>> =>
        LET first == datasets[measurement_map[selected_measures[1]]]
        IN  /\ dataset_name = measurement_map[selected_measures[1]]
            /\ date_bounds = <<MinDate(first), MaxDate(first)>>
            /\ df.columns = first.columns
            /\ Range(df.rows) \subseteq Range(first.rows)

\* Two measurements of different datasets are selected, the second is no
\* column of the dataset queried, and the table is shown.
C7_Witness ==
    /\ Len(selected_measures) = 2
    /\ measurement_map[selected_measures[2]] # measurement_map[selected_measures[1]]
    /\ selected_measures[2] \notin Columns(dataset_name)
    /\ date_bounds[1] < date_bounds[2]
    /\ "table" \in shown

\* C7 (first-selection resolution): in every state C7_Resolved; a date
\* picker rendered with new limits starts at (min DATE, max DATE) of that
\* dataset; and a change of the selection that keeps its first measurement
\* keeps the dataset queried and the picker's limits.
C7_FirstSelection ==
    /\ []C7_Resolved
    /\ [][(date_bounds' # date_bounds /\ date_bounds' # <<>>)
             => date_value' = date_bounds']_vars
    /\ [][(selected_measures # <<>> /\ selected_measures' # <<>>
             /\ selected_measures'[1] = selected_measures[1])
             => (dataset_name' = dataset_name /\ date_bounds' = date_bounds)]_vars

\* C8 (selection-to-output state machine): with nothing selected nothing is
\* shown; with a selection the run ends in EmptyResult or NonEmptyResult,
\* the chart is shown iff the filtered view has rows, and the table and the
\* exports are those of the current selection and range.
C8_StateMachine ==
    /\ selected_measures = <<>> => (phase = "NoSelection" /\ shown = {})
    /\ selected_measures # <<>> =>
          /\ phase \in {"EmptyResult", "NonEmptyResult"}
          /\ ("chart" \in shown) <=> (df.rows # <<>>)
          /\ {"table", "excel", "csv"} \subseteq shown
          /\ df.rows = SelectSeq(Source.rows, InRange)

\* C9 (export fidelity): the delimited text decodes to the view's column
\* names followed by one line per row of the view, in view order, holding
\* the row's field values as strings and no index field; the workbook holds
\* the same header and cells; the view has the dataset's column order.
C9_ExportFidelity ==
    ("csv" \in shown) =>
        LET d == DecodeCsv(csv_data)
        IN  /\ Len(d) = 1 + Len(df.rows)
            /\ d[1] = df.columns
            /\ \A i \in DOMAIN df.rows :
                  d[i + 1] = [j \in DOMAIN df.columns |->
                                 ToString(df.rows[i][df.columns[j]])]
            /\ "excel" \in shown /\ "table" \in shown
            /\ excel_data.sheet = "FilteredData"
            /\ excel_data.header = df.columns
            /\ \A i \in DOMAIN df.rows : \A j \in DOMAIN df.columns :
                  excel_data.cells[i][j] = df.rows[i][df.columns[j]]
            /\ Len(excel_data.cells) = Len(df.rows)
            /\ df.columns = Source.columns

\* Both exports of a two-row view of a seven-column dataset are offered.
C9_Witness ==
    /\ "csv" \in shown
    /\ Len(df.rows) = 2
    /\ Len(df.columns) = 7
    /\ Len(csv_data) = 3 * (2 * 7)

\* C10 (frame condition): in every state the store holds the workbooks as
\* loaded (rows, columns, stored types) and the index is the one built from
\* them.
C10_Frame ==
    /\ \A n \in DatasetSet : datasets[n] = files[FileOf(n)]
    /\ measurement_map = BuildIndex(LoadDatasets(files))

\* A run coerced the text dates of its copy and dropped a row of it, and the
\* store still has the text dates and the row.
C10_Witness ==
    /\ Queried
    /\ df.dtypes["DATE"] = "datetime64"
    /\ Source.dtypes["DATE"] = "object"
    /\ Len(df.rows) < Len(Source.rows)
====
